---- MODULE Spec2Model ----
(***************************************************************************)
(* Credential lifecycle of the Spotify MCP server: createSpotifyApi()      *)
(* (the spec's getValidCredential), refreshAccessToken() and the           *)
(* authorizeSpotify() bootstrap, as documented in TOKEN_REFRESH_FIX.md.    *)
(*                                                                         *)
(* Time is in epoch milliseconds.  A field that is absent (undefined) is   *)
(* modelled by the falsy value 0, which is how the code tests it           *)
(* (`config.accessToken && config.refreshToken`, `!config.expiresAt`).     *)
(* Access tokens and refresh tokens are numbered 1, 2, ... in two          *)
(* separate name spaces.                                                   *)
(***************************************************************************)
EXTENDS Integers, FiniteSets, Sequences

\* ---- bounds of the model ------------------------------------------------
NumCalls == 2          \* concurrent createSpotifyApi() calls
MaxTicks == 1          \* seconds the clock advances
MaxIssue == 3          \* tokens of each kind the endpoint hands out
MaxExpiresIn == 2      \* expires_in values (seconds) the endpoint may answer
MaxRequests == 3       \* CallTool requests the server receives

\* ---- program constants --------------------------------------------------
MsPerSecond == 1000
DefaultExpiresIn == 3600
StartNow == MsPerSecond

Absent == 0
Calls == 1 .. NumCalls
ExpiresInValues == 1 .. MaxExpiresIn

VARIABLES
  store,      \* the persisted document spotify-config.json (token fields)
  validRT,    \* the refresh token the provider currently accepts (Absent: none)
  now,        \* Date.now()
  nextAT,     \* next access token the provider issues
  nextRT,     \* next refresh token the provider issues
  pc,         \* per call: "idle", "awaiting" (inside await refreshAccessToken), "done"
  config,     \* per call: the record loaded by loadSpotifyConfig()
  nowAt,      \* per call: the local `now` sampled at line 74
  resp,       \* per call: the body the token endpoint answered
  outcome,    \* per call: how the call ended
  sent,       \* per call: refresh requests sent to the endpoint
  wrote,      \* per call: TRUE once the call has saved the record
  bootstrapped, \* a bootstrap has succeeded
  revoked,    \* the refresh token was revoked upstream by the user
  faulted,    \* the last fault met: "network", "save", or "none"
  bootResult, \* outcome of the authorizeSpotify() run now ending, or "none"
  bootTokens, \* what exchangeCodeForToken() returned to the last successful run
  tpc,        \* CallTool handler: "idle", "finding", "handling", "replied"
  treq,       \* the CallTool request: tool name and arguments
  invoked,    \* per registered tool: times its handler ran for this request
  terr,       \* how handleSpotifyRequest ended inside the handler ("none": not called)
  tout,       \* what the tool's handler produced (a result or a thrown error)
  tres,       \* what the CallTool handler produced
  served      \* requests received so far

credVars == <<store, validRT, now, nextAT, nextRT, pc, config, nowAt, resp,
              outcome, sent, wrote, bootstrapped, revoked, faulted, bootResult,
              bootTokens>>

toolVars == <<tpc, treq, invoked, terr, tout, tres, served>>

vars == <<credVars, toolVars>>

\* ---- data ---------------------------------------------------------------
SpotifyConfig(at, rt, exp) ==
  [accessToken |-> at, refreshToken |-> rt, expiresAt |-> exp]

NoConfig == SpotifyConfig(Absent, Absent, Absent)
NoResp == [status |-> "none", access_token |-> Absent,
           expires_in |-> Absent, refresh_token |-> Absent]
NoOutcome == [kind |-> "none", token |-> Absent]
NoTokens == [access_token |-> Absent, refresh_token |-> Absent,
             expires_in |-> Absent]

\* Documents that can be on disk when the server starts: identity only, a
\* document written by the release that did not track expiresAt, one left
\* by an earlier run (expired by now, or still fresh), and hand edited
\* documents holding one token only.
InitRecords ==
  { NoConfig, SpotifyConfig(1, 1, Absent) }
  \cup { SpotifyConfig(1, 1, e) : e \in {StartNow, StartNow + MsPerSecond} }
  \cup { SpotifyConfig(1, Absent, e) : e \in {Absent, StartNow, StartNow + MsPerSecond} }
  \cup { SpotifyConfig(Absent, 1, e) : e \in {Absent, StartNow, StartNow + MsPerSecond} }

\* ---- Credential Store ---------------------------------------------------
loadSpotifyConfig == store

saveSpotifyConfig(cfg) == cfg

\* ---- createSpotifyApi, line by line -------------------------------------
hasTokens_Always(cfg) == TRUE

hasTokens_AccessOnly(cfg) == cfg.accessToken # Absent

\* line 73: if (config.accessToken && config.refreshToken)
hasTokens(cfg) == cfg.accessToken # Absent /\ cfg.refreshToken # Absent

shouldRefresh_Strict(cfg, t) == cfg.expiresAt = Absent \/ cfg.expiresAt < t

shouldRefresh_Always(cfg, t) == TRUE

\* line 75: const shouldRefresh = !config.expiresAt || config.expiresAt <= now
shouldRefresh(cfg, t) == cfg.expiresAt = Absent \/ cfg.expiresAt <= t

\* lines 53-55: refreshAccessToken resolves to { access_token, expires_in };
\* a refresh_token in the endpoint's body is not part of the result.
refreshAccessToken(body) ==
  [access_token |-> body.access_token, expires_in |-> body.expires_in]

applyTokens_NoScale(cfg, tokens, t) ==
  [cfg EXCEPT !.accessToken = tokens.access_token,
              !.expiresAt = t + tokens.expires_in]

applyTokens_TakeRefresh(cfg, tokens, t) ==
  [cfg EXCEPT !.accessToken = tokens.access_token,
              !.refreshToken = Absent,
              !.expiresAt = t + tokens.expires_in * MsPerSecond]

\* lines 80-81: config.accessToken = tokens.access_token;
\*              config.expiresAt = now + tokens.expires_in * 1000;
applyTokens(cfg, tokens, t) ==
  [cfg EXCEPT !.accessToken = tokens.access_token,
              !.expiresAt = t + tokens.expires_in * MsPerSecond]

\* The record the call holds after lines 79-81.
Updated(c) == applyTokens(config[c], refreshAccessToken(resp[c]), nowAt[c])

storeAfterRefresh_SaveAlways(status, saveOk, cfg, st) ==
  IF saveOk THEN saveSpotifyConfig(cfg) ELSE st

storeAfterRefresh_SaveUnlessRejected(status, saveOk, cfg, st) ==
  IF status # "rejected" /\ saveOk THEN saveSpotifyConfig(cfg) ELSE st

\* lines 79-82: saveSpotifyConfig(config) is reached only when the await did
\* not throw; a failing write leaves the document as it was.
storeAfterRefresh(status, saveOk, cfg, st) ==
  IF status = "ok" /\ saveOk THEN saveSpotifyConfig(cfg) ELSE st

\* The failure kind the caller sees when the refresh path throws.
failureKind(status) ==
  IF status = "network" THEN "NetworkError"
  ELSE IF status = "rejected" THEN "AuthExpired"
  ELSE "PersistenceError"

\* The failure of a call whose record lacks a token.
notBootstrappedOutcome == [kind |-> "NotBootstrapped", token |-> Absent]

refreshOutcome_IgnoreSave(status, saveOk, cfg) ==
  IF status = "ok"
  THEN [kind |-> "Token", token |-> cfg.accessToken]
  ELSE [kind |-> failureKind(status), token |-> Absent]

\* lines 79-84: an exception of the await or of the save propagates to the
\* caller; otherwise the API instance is created with the fresh token.
refreshOutcome(status, saveOk, cfg) ==
  IF status = "ok" /\ saveOk
  THEN [kind |-> "Token", token |-> cfg.accessToken]
  ELSE [kind |-> failureKind(status), token |-> Absent]

\* ---- the token endpoint (grant_type=refresh_token) -----------------------
\* Bodies the endpoint can answer to a request carrying refresh token rt.
EndpointBodies(rt) ==
  { [status |-> "network", access_token |-> Absent,
     expires_in |-> Absent, refresh_token |-> Absent] }
  \cup
  ( IF rt # Absent /\ rt = validRT
    THEN { [status |-> "ok", access_token |-> nextAT, expires_in |-> e,
            refresh_token |-> r] :
             e \in IF nextAT <= MaxIssue THEN ExpiresInValues ELSE {},
             r \in IF nextRT <= MaxIssue THEN {Absent, nextRT} ELSE {Absent} }
    ELSE { [status |-> "rejected", access_token |-> Absent,
            expires_in |-> Absent, refresh_token |-> Absent] } )

\* ---- the tool layer (index.ts, devices.ts, albums) -----------------------
\* index.ts 12-17: the registered tools, by name, in registration order.
allTools == <<"getAlbum", "devices">>

\* Names a CallTool request can carry: the registered ones and one that is not.
RequestNames == {"getAlbum", "devices", "noSuchTool"}

\* request.params.arguments is optional in a CallTool request.
RequestArgs == {"present", "absent"}

\* How handleSpotifyRequest can end: the API result, or an error carrying a
\* credential failure or a failure of the Web API call.
HandleOutcomes ==
  {"ok", "NotBootstrapped", "AuthExpired", "NetworkError", "PersistenceError",
   "ApiError"}

NoRequest == [name |-> "", args |-> "absent"]
NoText == [prefix |-> "", tool |-> "", msg |-> ""]
NoOutput == [thrown |-> FALSE, text |-> NoText]
NoResult == [kind |-> "none", isError |-> FALSE, text |-> NoText]

\* index.ts 128: allTools.find(t => t.name === name); 0 when there is none.
findTool(name) ==
  LET S == {i \in DOMAIN allTools : allTools[i] = name}
  IN IF S = {} THEN 0 ELSE CHOOSE i \in S : \A j \in S : i <= j

\* devices.ts 7-22: no try/catch, the error of handleSpotifyRequest escapes.
getAvailableDevicesHandler(args, h) ==
  IF h = "ok"
  THEN [thrown |-> FALSE,
        text |-> [prefix |-> "Available devices", tool |-> "", msg |-> ""]]
  ELSE [thrown |-> TRUE, text |-> [prefix |-> "", tool |-> "", msg |-> h]]

\* albums 14-53: `const { albumId } = args` precedes the try; inside the try
\* the error of handleSpotifyRequest is caught and returned as content.
getAlbumHandler(args, h) ==
  IF args = "absent"
  THEN [thrown |-> TRUE, text |-> [prefix |-> "", tool |-> "", msg |-> "TypeError"]]
  ELSE IF h = "ok"
  THEN [thrown |-> FALSE,
        text |-> [prefix |-> "# Album Details", tool |-> "", msg |-> ""]]
  ELSE [thrown |-> FALSE,
        text |-> [prefix |-> "Error getting album", tool |-> "", msg |-> h]]

\* The handler of the i-th registered tool.
runHandler(i, args, h) ==
  IF allTools[i] = "getAlbum" THEN getAlbumHandler(args, h)
  ELSE getAvailableDevicesHandler(args, h)

\* Whether the handler of the i-th tool reaches handleSpotifyRequest.
reachesSpotify(i, args) == allTools[i] = "getAlbum" => args = "present"

callToolResult_Rethrow(name, out) ==
  IF out.thrown
  THEN [kind |-> "thrown", isError |-> FALSE, text |-> out.text]
  ELSE [kind |-> "result", isError |-> FALSE, text |-> out.text]

\* index.ts 133-159: the handler's content is passed on; an error it throws
\* is caught and returned with isError: true.
callToolResult(name, out) ==
  IF out.thrown
  THEN [kind |-> "result", isError |-> TRUE,
        text |-> [prefix |-> "Error executing tool", tool |-> name,
                  msg |-> out.text.msg]]
  ELSE [kind |-> "result", isError |-> FALSE, text |-> out.text]

\* index.ts 129-131: throw new Error(`Tool not found: ${name}`)
toolNotFound(name) ==
  [kind |-> "thrown", isError |-> FALSE,
   text |-> [prefix |-> "Tool not found", tool |-> name, msg |-> ""]]

\* ---- actions ------------------------------------------------------------
Init ==
  /\ store \in InitRecords
  /\ validRT = store.refreshToken
  /\ now = StartNow
  /\ nextAT = 2
  /\ nextRT = 2
  /\ pc = [c \in Calls |-> "idle"]
  /\ config = [c \in Calls |-> NoConfig]
  /\ nowAt = [c \in Calls |-> Absent]
  /\ resp = [c \in Calls |-> NoResp]
  /\ outcome = [c \in Calls |-> NoOutcome]
  /\ sent = [c \in Calls |-> 0]
  /\ wrote = [c \in Calls |-> FALSE]
  /\ bootstrapped = hasTokens(store)
  /\ revoked = FALSE
  /\ faulted = "none"
  /\ bootResult = "none"
  /\ bootTokens = NoTokens
  /\ tpc = "idle"
  /\ treq = NoRequest
  /\ invoked = [i \in DOMAIN allTools |-> 0]
  /\ terr = "none"
  /\ tout = NoOutput
  /\ tres = NoResult
  /\ served = 0

\* No outcome is waiting to be handed over.  A call that has settled returns
\* to its caller, and an `npm run auth` run that has reported exits, before
\* the next step is looked at: the hand-over changes nothing but the
\* outcome itself.
Quiet == bootResult = "none" /\ \A c \in Calls : pc[c] # "done"

\* lines 71-73, guard false: the record lacks a token.
CallNotBootstrapped(c) ==
  /\ UNCHANGED toolVars
  /\ Quiet
  /\ pc[c] = "idle"
  /\ ~hasTokens(loadSpotifyConfig)
  /\ pc' = [pc EXCEPT ![c] = "done"]
  /\ config' = [config EXCEPT ![c] = loadSpotifyConfig]
  /\ nowAt' = [nowAt EXCEPT ![c] = now]
  /\ outcome' = [outcome EXCEPT ![c] = notBootstrappedOutcome]
  /\ UNCHANGED <<store, validRT, now, nextAT, nextRT, resp, sent, wrote,
                 bootstrapped, revoked, faulted, bootResult, bootTokens>>

\* lines 71-77 and 84, shouldRefresh false: the stored token is handed out.
CallCached(c) ==
  /\ UNCHANGED toolVars
  /\ Quiet
  /\ pc[c] = "idle"
  /\ hasTokens(loadSpotifyConfig)
  /\ ~shouldRefresh(loadSpotifyConfig, now)
  /\ pc' = [pc EXCEPT ![c] = "done"]
  /\ config' = [config EXCEPT ![c] = loadSpotifyConfig]
  /\ nowAt' = [nowAt EXCEPT ![c] = now]
  /\ outcome' = [outcome EXCEPT ![c] =
                   [kind |-> "Token", token |-> loadSpotifyConfig.accessToken]]
  /\ UNCHANGED <<store, validRT, now, nextAT, nextRT, resp, sent, wrote,
                 bootstrapped, revoked, faulted, bootResult, bootTokens>>

\* lines 71-79: the call sends the refresh request and suspends in the await.
CallStartRefresh(c) ==
  /\ UNCHANGED toolVars
  /\ Quiet
  /\ pc[c] = "idle"
  /\ hasTokens(loadSpotifyConfig)
  /\ shouldRefresh(loadSpotifyConfig, now)
  /\ pc' = [pc EXCEPT ![c] = "awaiting"]
  /\ config' = [config EXCEPT ![c] = loadSpotifyConfig]
  /\ nowAt' = [nowAt EXCEPT ![c] = now]
  /\ sent' = [sent EXCEPT ![c] = sent[c] + 1]
  /\ UNCHANGED <<store, validRT, now, nextAT, nextRT, resp, outcome, wrote,
                 bootstrapped, revoked, faulted, bootResult, bootTokens>>

\* lines 79-84: the endpoint answers, the await resumes, the record is
\* updated and saved, and the call returns (or the exception propagates).
CallFinishRefresh(c) ==
  /\ UNCHANGED toolVars
  /\ Quiet
  /\ pc[c] = "awaiting"
  /\ \E body \in EndpointBodies(config[c].refreshToken), saveOk \in BOOLEAN :
       LET cfg == applyTokens(config[c], refreshAccessToken(body), nowAt[c])
           ok  == body.status = "ok"
       IN /\ (~ok => saveOk)
          /\ resp' = [resp EXCEPT ![c] = body]
          /\ store' = storeAfterRefresh(body.status, saveOk, cfg, store)
          /\ wrote' = [wrote EXCEPT ![c] = ok /\ saveOk]
          /\ outcome' = [outcome EXCEPT ![c] = refreshOutcome(body.status, saveOk, cfg)]
          /\ nextAT' = IF ok THEN nextAT + 1 ELSE nextAT
          /\ nextRT' = IF body.refresh_token # Absent THEN nextRT + 1 ELSE nextRT
          /\ validRT' = IF body.refresh_token # Absent THEN body.refresh_token ELSE validRT
          /\ faulted' = IF body.status = "network" THEN "network"
                        ELSE IF ~saveOk THEN "save" ELSE faulted
  /\ pc' = [pc EXCEPT ![c] = "done"]
  /\ UNCHANGED <<now, config, nowAt, sent, bootstrapped, revoked, bootResult, bootTokens>>

\* The caller has consumed the result; the slot serves the next request.
CallReturn(c) ==
  /\ UNCHANGED toolVars
  /\ pc[c] = "done"
  /\ pc' = [pc EXCEPT ![c] = "idle"]
  /\ config' = [config EXCEPT ![c] = NoConfig]
  /\ nowAt' = [nowAt EXCEPT ![c] = Absent]
  /\ resp' = [resp EXCEPT ![c] = NoResp]
  /\ outcome' = [outcome EXCEPT ![c] = NoOutcome]
  /\ sent' = [sent EXCEPT ![c] = 0]
  /\ wrote' = [wrote EXCEPT ![c] = FALSE]
  /\ UNCHANGED <<store, validRT, now, nextAT, nextRT, bootstrapped, revoked, faulted, bootResult, bootTokens>>

\* line 102: expires_in: data.expires_in || 3600
exchangeExpiresIn(e) == IF e = Absent THEN DefaultExpiresIn ELSE e

\* lines 99-103: what exchangeCodeForToken returns for the endpoint's body.
exchangeCodeForToken(data) ==
  [access_token |-> data.access_token, refresh_token |-> data.refresh_token,
   expires_in |-> exchangeExpiresIn(data.expires_in)]

authorizedConfig_NoExpiry(cfg, tokens, t) ==
  [cfg EXCEPT !.accessToken = tokens.access_token,
              !.refreshToken = tokens.refresh_token]

\* lines 110-112: the record authorizeSpotify() writes.
authorizedConfig(cfg, tokens, t) ==
  [cfg EXCEPT !.accessToken = tokens.access_token,
              !.refreshToken = tokens.refresh_token,
              !.expiresAt = t + tokens.expires_in * MsPerSecond]

storeAfterExchange_SaveFirst(ok, cfg, st) ==
  IF ok THEN saveSpotifyConfig(cfg)
  ELSE saveSpotifyConfig([st EXCEPT !.accessToken = Absent])

\* lines 110-113: saveSpotifyConfig(config) follows the exchange; an exchange
\* that throws leaves the document as it was.
storeAfterExchange(ok, cfg, st) ==
  IF ok THEN saveSpotifyConfig(cfg) ELSE st

\* authorizeSpotify(): the interactive `npm run auth`, run while no request
\* of the server is in flight.
Bootstrap ==
  /\ UNCHANGED toolVars
  /\ Quiet
  /\ \A c \in Calls : pc[c] # "awaiting"
  /\ \E ok \in IF nextAT <= MaxIssue /\ nextRT <= MaxIssue
                THEN BOOLEAN ELSE {FALSE},
        e \in ExpiresInValues \cup {Absent} :
       LET tokens == exchangeCodeForToken([access_token |-> nextAT,
                        refresh_token |-> nextRT, expires_in |-> e])
           cfg == authorizedConfig(loadSpotifyConfig, tokens, now)
       IN /\ store' = storeAfterExchange(ok, cfg, store)
          /\ IF ok
             THEN /\ validRT' = nextRT
                  /\ nextAT' = nextAT + 1
                  /\ nextRT' = nextRT + 1
                  /\ bootstrapped' = TRUE
                  /\ revoked' = FALSE
                  /\ bootResult' = "ok"
                  /\ bootTokens' = tokens
             ELSE /\ bootResult' = "AuthorizationFailed"
                  /\ UNCHANGED <<validRT, nextAT, nextRT, bootstrapped,
                                 revoked, bootTokens>>
  /\ UNCHANGED <<now, pc, config, nowAt, resp, outcome, sent, wrote, faulted>>

\* The `npm run auth` process has reported its outcome and exits.
BootstrapExit ==
  /\ UNCHANGED toolVars
  /\ bootResult # "none"
  /\ bootResult' = "none"
  /\ UNCHANGED <<store, validRT, now, nextAT, nextRT, pc, config, nowAt, resp,
                 outcome, sent, wrote, bootstrapped, revoked, faulted, bootTokens>>

\* The user revokes the application's access at the provider.
Revoke ==
  /\ UNCHANGED toolVars
  /\ Quiet
  /\ validRT # Absent
  /\ validRT' = Absent
  /\ revoked' = TRUE
  /\ UNCHANGED <<store, now, nextAT, nextRT, pc, config, nowAt, resp, outcome,
                 sent, wrote, bootstrapped, faulted, bootResult, bootTokens>>

\* The clock advances by one second.
Tick ==
  /\ UNCHANGED toolVars
  /\ Quiet
  /\ now < StartNow + MaxTicks * MsPerSecond
  /\ now' = now + MsPerSecond
  /\ UNCHANGED <<store, validRT, nextAT, nextRT, pc, config, nowAt, resp,
                 outcome, sent, wrote, bootstrapped, revoked, faulted, bootResult, bootTokens>>

Next ==
  \/ \E c \in Calls : CallNotBootstrapped(c)
  \/ \E c \in Calls : CallCached(c)
  \/ \E c \in Calls : CallStartRefresh(c)
  \/ \E c \in Calls : CallFinishRefresh(c)
  \/ \E c \in Calls : CallReturn(c)
  \/ Bootstrap
  \/ BootstrapExit
  \/ Revoke
  \/ Tick

Spec == Init /\ [][Next]_vars

\* index.ts 125-126: a CallTool request arrives.
CallToolReceive ==
  /\ tpc = "idle"
  /\ served < MaxRequests
  /\ \E n \in RequestNames, a \in RequestArgs :
       treq' = [name |-> n, args |-> a]
  /\ tpc' = "finding"
  /\ served' = served + 1
  /\ UNCHANGED <<invoked, terr, tout, tres>>
  /\ UNCHANGED credVars

\* index.ts 128-131: no tool has the name.
CallToolNotFound ==
  /\ tpc = "finding"
  /\ findTool(treq.name) = 0
  /\ tres' = toolNotFound(treq.name)
  /\ tpc' = "replied"
  /\ UNCHANGED <<treq, invoked, terr, tout, served>>
  /\ UNCHANGED credVars

\* index.ts 128, 133-143: the tool is found and its handler is called.
CallToolInvoke ==
  /\ tpc = "finding"
  /\ findTool(treq.name) # 0
  /\ invoked' = [invoked EXCEPT ![findTool(treq.name)] = @ + 1]
  /\ tpc' = "handling"
  /\ UNCHANGED <<treq, terr, tout, tres, served>>
  /\ UNCHANGED credVars

\* index.ts 143-159: the handler settles and the CallTool handler answers.
CallToolSettle ==
  /\ tpc = "handling"
  /\ LET i == findTool(treq.name)
     IN \E h \in IF reachesSpotify(i, treq.args) THEN HandleOutcomes ELSE {"none"} :
          /\ terr' = h
          /\ tout' = runHandler(i, treq.args, h)
          /\ tres' = callToolResult(treq.name, runHandler(i, treq.args, h))
  /\ tpc' = "replied"
  /\ UNCHANGED <<treq, invoked, served>>
  /\ UNCHANGED credVars

\* The answer has been sent; the server waits for the next request.
CallToolDone ==
  /\ tpc = "replied"
  /\ tpc' = "idle"
  /\ treq' = NoRequest
  /\ invoked' = [i \in DOMAIN allTools |-> 0]
  /\ terr' = "none"
  /\ tout' = NoOutput
  /\ tres' = NoResult
  /\ UNCHANGED served
  /\ UNCHANGED credVars

NextTool ==
  \/ CallToolReceive
  \/ CallToolNotFound
  \/ CallToolInvoke
  \/ CallToolSettle
  \/ CallToolDone

SpecTool == Init /\ [][NextTool]_vars

TypeOK ==
  /\ store.accessToken \in 0 .. MaxIssue + 1
  /\ now \in StartNow .. StartNow + MaxTicks * MsPerSecond
  /\ \A c \in Calls : pc[c] \in {"idle", "awaiting", "done"}

\* ---- properties ---------------------------------------------------------
\* The record call c holds when it returns: the refreshed one after a
\* successful refresh, the loaded one otherwise.
Held(c) == IF resp[c].status = "ok" THEN Updated(c) ELSE config[c]

\* Call c ends in this step.
Ends(c) == pc[c] # "done" /\ pc'[c] = "done"

\* Call c ends its refresh path in this step.
EndsRefresh(c) == pc[c] = "awaiting" /\ pc'[c] = "done"

\* The record call c loaded was expired when the call sampled the clock.
LoadedExpired(c) ==
  config[c].expiresAt = Absent \/ config[c].expiresAt <= nowAt[c]

\* C1: two calls that both observe the expired record never have their
\* refresh requests in flight together (at most one request is sent).
C1_SingleRefreshInFlight ==
  \A c, d \in Calls : pc[c] = "awaiting" /\ pc[d] = "awaiting" => c = d

\* C2: a call on a record holding both tokens whose expiresAt is absent or
\* <= now sends exactly one refresh request, and when the endpoint succeeds
\* the call returns the token only after the updated record has been saved.
C2_ExpiredRefreshesOnceAndSaves ==
  /\ [](\A c \in Calls :
          pc[c] = "done" /\ hasTokens(config[c]) /\ LoadedExpired(c)
          => /\ sent[c] = 1
             /\ resp[c].status # "none"
             /\ (outcome[c].kind = "Token" => wrote[c] /\ resp[c].status = "ok")
             /\ (resp[c].status = "ok"
                   => outcome[c].kind \in {"Token", "PersistenceError"}))
  /\ [][\A c \in Calls :
          EndsRefresh(c) /\ outcome'[c].kind = "Token"
          => store' = Updated(c)' /\ sent'[c] = 1]_vars

C2_Witness ==
  \E c \in Calls :
    /\ pc[c] = "done" /\ hasTokens(config[c])
    /\ config[c].expiresAt # Absent /\ config[c].expiresAt = nowAt[c]
    /\ outcome[c].kind = "Token" /\ wrote[c] /\ sent[c] = 1

C4_RotatedRefreshTokenPersisted ==
  [][\A c \in Calls :
       EndsRefresh(c) /\ outcome'[c].kind = "Token"
       => store'.refreshToken =
            IF resp'[c].refresh_token # Absent
            THEN resp'[c].refresh_token
            ELSE config[c].refreshToken]_vars

\* C5: a rejected refresh ends the call with AuthExpired, the persisted
\* record is left exactly as it was, and the call has sent one request only.
C5_RejectedLeavesStore ==
  /\ [](\A c \in Calls :
          outcome[c].kind = "AuthExpired"
          => /\ pc[c] = "done"
             /\ resp[c].status = "rejected"
             /\ sent[c] = 1
             /\ ~wrote[c]
             /\ outcome[c].token = Absent)
  /\ [][\A c \in Calls :
          EndsRefresh(c) /\ resp'[c].status = "rejected"
          => /\ store' = store
             /\ outcome'[c].kind = "AuthExpired"
             /\ sent'[c] = sent[c]]_vars

C5_Witness ==
  \E c \in Calls :
    /\ pc[c] = "done" /\ outcome[c].kind = "AuthExpired"
    /\ hasTokens(store) /\ store = config[c]

\* C6: whenever a call returns a token, the expiresAt recorded for that
\* token is later than the clock at the moment of return, and a call that
\* fails returns no token.
C6_ReturnedTokenValidAtReturn ==
  [][\A c \in Calls :
       Ends(c)
       => IF outcome'[c].kind = "Token"
          THEN /\ Held(c)'.expiresAt # Absent
               /\ Held(c)'.expiresAt > now'
          ELSE outcome'[c].token = Absent]_vars

\* C7: after a successful refresh answering {access_token T, expires_in E},
\* the document holds accessToken = T and expiresAt = now + E * 1000, now
\* being the clock value the call sampled for the refresh, and T is returned.
C7_RoundTrip ==
  [][\A c \in Calls :
       EndsRefresh(c) /\ outcome'[c].kind = "Token"
       => /\ loadSpotifyConfig'.accessToken = resp'[c].access_token
          /\ loadSpotifyConfig'.expiresAt =
               nowAt[c] + resp'[c].expires_in * 1000
          /\ outcome'[c].token = resp'[c].access_token]_vars

C7_Witness ==
  \E c \in Calls :
    /\ pc[c] = "done" /\ outcome[c].kind = "Token" /\ wrote[c]
    /\ resp[c].expires_in = MaxExpiresIn
    /\ store.accessToken = resp[c].access_token
    /\ store.expiresAt = nowAt[c] + MaxExpiresIn * 1000
    /\ now > nowAt[c]

\* C8: once bootstrapped, and as long as the refresh token has not been
\* revoked upstream and the endpoint and the storage have been available,
\* every call ends with a token, never with AuthExpired or NotBootstrapped.
C8_NoReauthentication ==
  [][\A c \in Calls :
       Ends(c) /\ bootstrapped /\ ~revoked /\ faulted' = "none"
       => outcome'[c].kind \notin {"AuthExpired", "NotBootstrapped"}]_vars

\* C9: a call that loads a record with neither accessToken nor refreshToken
\* fails with NotBootstrapped, sends nothing to the endpoint and leaves the
\* document untouched.
C9_NoTokensNotBootstrapped ==
  /\ [](\A c \in Calls :
          pc[c] # "idle" /\ config[c].accessToken = Absent
                         /\ config[c].refreshToken = Absent
          => /\ pc[c] = "done"
             /\ outcome[c].kind = "NotBootstrapped"
             /\ sent[c] = 0
             /\ ~wrote[c]
             /\ resp[c].status = "none")
  /\ [][\A c \in Calls :
          Ends(c) /\ outcome'[c].kind = "NotBootstrapped"
          => store' = store /\ nextAT' = nextAT]_vars

C9_Witness ==
  \E c \in Calls :
    /\ pc[c] = "done" /\ outcome[c].kind = "NotBootstrapped"
    /\ config[c] = NoConfig /\ store = NoConfig

\* C10: once a bootstrap has succeeded the document always holds a
\* refreshToken, and the refreshToken changes only in a bootstrap run,
\* never in a step of a credential request.
C10_RefreshTokenKept ==
  /\ [](bootstrapped => store.refreshToken # Absent)
  /\ [][store'.refreshToken # store.refreshToken
          => /\ bootResult' = "ok"
             /\ nextRT' # nextRT
             /\ pc' = pc]_vars

C10_Witness ==
  \E c \in Calls :
    /\ bootstrapped
    /\ pc[c] = "done" /\ outcome[c].kind = "Token" /\ wrote[c]
    /\ resp[c].refresh_token = Absent
    /\ store.refreshToken = config[c].refreshToken

\* A step of authorizeSpotify() whose exchange failed.
BootstrapFails == bootResult = "none" /\ bootResult' = "AuthorizationFailed"

\* A step of authorizeSpotify() whose exchange succeeded.
BootstrapSucceeds == nextRT' # nextRT /\ pc' = pc

\* C11: a bootstrap whose exchange fails ends with AuthorizationFailed and
\* leaves the document as it was; the bootstrap writes the document only
\* when the exchange has succeeded, and then accessToken, refreshToken and
\* expiresAt = now + expires_in * 1000 together.
C11_BootstrapAllOrNothing ==
  /\ [][BootstrapFails => store' = store /\ bootTokens' = bootTokens]_vars
  /\ [][store' # store /\ pc' = pc => BootstrapSucceeds /\ bootResult' = "ok"]_vars
  /\ [][BootstrapSucceeds
          => /\ bootResult' = "ok"
             /\ bootTokens'.access_token # Absent
             /\ bootTokens'.refresh_token # Absent
             /\ bootTokens'.expires_in # Absent
             /\ store' = [accessToken |-> bootTokens'.access_token,
                          refreshToken |-> bootTokens'.refresh_token,
                          expiresAt |-> now + bootTokens'.expires_in * 1000]]_vars

C11_Witness ==
  /\ bootResult = "AuthorizationFailed"
  /\ bootTokens # NoTokens
  /\ store.accessToken = bootTokens.access_token
  /\ store.refreshToken = bootTokens.refresh_token
  /\ store.expiresAt = StartNow + bootTokens.expires_in * 1000

\* C12: when the refresh succeeded and the save of the record failed, the
\* call fails with PersistenceError and returns no token; a call returns a
\* refreshed token only when the document holds that token.
C12_SaveFailureSurfaced ==
  /\ [](\A c \in Calls :
          /\ (outcome[c].kind = "PersistenceError"
                => resp[c].status = "ok" /\ ~wrote[c] /\ outcome[c].token = Absent)
          /\ (pc[c] = "done" /\ resp[c].status = "ok" /\ ~wrote[c]
                => outcome[c].kind = "PersistenceError"))
  /\ [][\A c \in Calls :
          EndsRefresh(c)
          => /\ (store'.accessToken # resp'[c].access_token
                   => outcome'[c].kind # "Token")
             /\ (outcome'[c].kind = "PersistenceError" => store' = store)]_vars

C12_Witness ==
  \E c \in Calls :
    /\ pc[c] = "done" /\ outcome[c].kind = "PersistenceError"
    /\ resp[c].status = "ok" /\ store = config[c]
    /\ store.accessToken # resp[c].access_token

\* C13: a transport failure during the refresh ends the call with
\* NetworkError (not AuthExpired) after one request; the document and the
\* provider's state are left as they were, so a later call can refresh.
C13_NetworkErrorRetryable ==
  /\ [](\A c \in Calls :
          /\ (outcome[c].kind = "NetworkError"
                => /\ pc[c] = "done"
                   /\ resp[c].status = "network"
                   /\ sent[c] = 1
                   /\ ~wrote[c]
                   /\ outcome[c].token = Absent)
          /\ (pc[c] = "done" /\ resp[c].status = "network"
                => outcome[c].kind = "NetworkError"))
  /\ [][\A c \in Calls :
          EndsRefresh(c) /\ resp'[c].status = "network"
          => /\ store' = store
             /\ validRT' = validRT
             /\ nextAT' = nextAT
             /\ sent'[c] = sent[c]]_vars

\* A call failed with NetworkError and a later call has refreshed the
\* document: it loaded the token issued last and has saved the next one.
C13_Witness ==
  \E d \in Calls :
    /\ faulted = "network"
    /\ pc[d] = "done" /\ outcome[d].kind = "Token" /\ wrote[d]
    /\ config[d].accessToken = nextAT - 2
    /\ store.accessToken = nextAT - 1
    /\ store.accessToken = outcome[d].token

\* C14: a refresh request is only ever sent by a call whose loaded record
\* holds both accessToken and refreshToken; a record holding one of the two
\* never triggers a refresh, whatever its expiresAt.
C14_RefreshNeedsBothTokens ==
  /\ [](\A c \in Calls :
          /\ (sent[c] > 0 \/ pc[c] = "awaiting" \/ resp[c].status # "none"
                => config[c].accessToken # Absent /\ config[c].refreshToken # Absent)
          /\ (pc[c] # "idle" /\ (config[c].accessToken = Absent
                                  \/ config[c].refreshToken = Absent)
                => sent[c] = 0 /\ pc[c] = "done"))
  /\ [][\A c \in Calls :
          sent'[c] > sent[c] => store.refreshToken # Absent /\ store.accessToken # Absent]_vars

C14_Witness ==
  \E c \in Calls :
    /\ pc[c] = "done" /\ sent[c] = 0
    /\ config[c].accessToken # Absent /\ config[c].refreshToken = Absent
    /\ config[c].expiresAt # Absent /\ config[c].expiresAt <= nowAt[c]

\* Exactly the handler of the tool the request names has run, once.
OnlyFoundInvokedOnce ==
  \A i \in DOMAIN allTools :
    invoked[i] = IF i = findTool(treq.name) THEN 1 ELSE 0

\* The dispatch half of C15: without a matching tool no handler runs and the
\* request fails with 'Tool not found'; with one, exactly its handler runs
\* once and the request is answered with a result, never with a thrown error.
DispatchOk ==
  tpc = "replied"
  => IF treq.name \notin {allTools[i] : i \in DOMAIN allTools}
     THEN /\ \A i \in DOMAIN allTools : invoked[i] = 0
          /\ tres.kind = "thrown"
          /\ tres.text.prefix = "Tool not found"
          /\ tres.text.tool = treq.name
     ELSE /\ OnlyFoundInvokedOnce
          /\ allTools[findTool(treq.name)] = treq.name
          /\ tres.kind = "result"

\* C15 as stated: dispatch as above, and every failure raised through
\* handleSpotifyRequest in the handler is answered with isError = true and
\* the error message.
C15_EveryFailureIsError ==
  /\ DispatchOk
  /\ (tpc = "replied" /\ terr \notin {"none", "ok"}
        => tres.isError /\ tres.text.msg = terr)

\* C15 amended: dispatch as above; an error that escapes the handler is
\* answered with isError = true and the error message; a failure of
\* handleSpotifyRequest that the handler catches itself (getAlbum) is
\* answered as ordinary content carrying the message, isError not set.
C15_EscapedErrorsAreFlagged ==
  /\ DispatchOk
  /\ (tpc = "replied" /\ tres.kind = "result"
        => /\ tres.isError = tout.thrown
           /\ tres.text.msg = tout.text.msg
           /\ (tout.thrown => /\ tres.text.prefix = "Error executing tool"
                              /\ tres.text.tool = treq.name)
           /\ (terr \notin {"none", "ok"}
                 => /\ tres.text.msg = terr
                    /\ tres.isError = (treq.name = "devices")))
  /\ (tpc = "replied" /\ treq.name = "getAlbum" /\ treq.args = "absent"
        => tres.isError /\ terr = "none")

C15_Witness ==
  /\ tpc = "replied" /\ treq.name = "devices"
  /\ terr = "AuthExpired"
  /\ tres.kind = "result" /\ tres.isError
  /\ tres.text.msg = "AuthExpired"
  /\ invoked[findTool("devices")] = 1

====
